---- MODULE Spec2Model ----
(***************************************************************************)
(* Model of StreamManager (src/stream_manager.py): the worker thread       *)
(* _stream_worker, the public methods next/prev/skip/stop/get_status, the  *)
(* ffmpeg processes the worker launches and the HLS files they write.      *)
(***************************************************************************)
EXTENDS Integers, Sequences, FiniteSets, TLC

\* ---------------------------------------------------------------- bounds
MaxLen   == 2   \* longest playlist the resolver returns
MaxSkip  == 4   \* largest video number passed to skip()
MaxCmds  == 2   \* next()/prev()/skip() calls over a run
MaxProcs == 2   \* ffmpeg processes launched over a run
MaxIndex == 1   \* playlist fetches may fail only while current_index < MaxIndex

Stoppers == {"s1"}   \* threads that call stop()

\* ---------------------------------------------------------------- state
VARIABLES
  ffmpeg_proc,    \* self.ffmpeg_proc: 0 is None, else the id of a launched process
  playlist,       \* self.playlist: sequence of page URLs (video ids)
  current_index,  \* self.current_index
  command_queue,  \* self.command_queue: FIFO of commands
  stop_event,     \* self.stop_event
  stream_ready,   \* self.stream_ready
  pc,             \* position of the worker thread in _stream_worker
  command,        \* the worker's local `command` ("none" is None, and outside a cycle)
  leftBy,         \* how the worker left the try block, "none" outside the finally block
  m3u8_ready,     \* local of _wait_for_stream (FALSE outside the call)
  ts_ready,       \* local of _wait_for_stream
  procs,          \* procs[p]: state of the p-th launched ffmpeg process
  files,          \* HLS_DIR: is stream.m3u8 / stream000.ts there and not empty
  spc,            \* position of each stop() caller
  waitOn,         \* the Popen object each stop() caller is blocked on in wait()
  nPut,           \* history: number of entries ever put on command_queue
  nApi,           \* history: number of next()/prev()/skip() calls so far
  cmd_data,       \* the worker's local `cmd_data`, NoCmd outside the cycle that set it
  lastGot,        \* history: ticket of the entry the worker dequeued last, 0 if none
  gotAfterStop,   \* history: commands the worker applied after stop() was called
  config,         \* self.config
  quality_key     \* history: the quality_key argument of __init__

vars == <<ffmpeg_proc, playlist, current_index, command_queue, stop_event,
          stream_ready, pc, command, leftBy, m3u8_ready, ts_ready, procs,
          files, spc, waitOn, nPut, nApi, cmd_data, lastGot, gotAfterStop,
          config, quality_key>>

workerVars == <<pc, command, leftBy, m3u8_ready, ts_ready, cmd_data, lastGot,
                gotAfterStop>>
stopVars   == <<spc, waitOn>>
confVars   == <<config, quality_key>>

\* ---------------------------------------------------------------- helpers
\* queue entries: "next", "prev", "stop" and ("skip", n), as records
Cmd(op, n) == [op |-> op, n |-> n]

\* Queue.put(c) (lines 85, 100, 105, 110); every entry carries the ticket of its
\* put, the position it was submitted at
Put(q, c, ticket) == Append(q, [op |-> c.op, n |-> c.n, ticket |-> ticket])

StopCmd == Cmd("stop", 0)

\* cmd_data with no entry in it
NoCmd == [op |-> "none", n |-> 0, ticket |-> 0]

\* what next(), prev() and skip(n) put on the queue (lines 100, 105, 110);
\* app.py rejects skip numbers below 1 (lines 35-36)
ApiCommands == {Cmd("next", 0), Cmd("prev", 0)} \cup {Cmd("skip", n) : n \in 1..MaxSkip}

\* Popen.poll() is None: the process has not exited (SIGTERM may be pending)
Alive(p) == procs[p] \in {"running", "terminating"}

\* Popen.terminate(): SIGTERM, not waited for; no effect on an exited process
Terminate(ps, p) ==
  IF ps[p] = "running" THEN [ps EXCEPT ![p] = "terminating"] ELSE ps

\* the playlist resolver's result for n entries
Videos(n) == [i \in 1..n |-> i]

NoFiles == [m3u8 |-> FALSE, ts |-> FALSE]

\* lines 283-297: the effect of a dequeued command on current_index
ApplyCommand(idx, cmd) ==
  IF cmd.op = "skip" THEN cmd.n - 1
  ELSE IF cmd.op = "next" THEN idx + 1
  ELSE IF cmd.op = "prev" THEN idx - 1
  ELSE idx

\* mutant of NormalizeIndex: `>` for `>=` at line 316, an index equal to the
\* length is not wrapped
NormalizeIndexOffByOne(idx, len) ==
  IF 0 <= idx /\ idx < len THEN idx
  ELSE IF idx > len THEN 0
  ELSE IF idx < 0 THEN len - 1
  ELSE idx

\* mutant of NormalizeIndex: lines 319-321 missing, a negative index is kept
NormalizeIndexNoWrapBack(idx, len) ==
  IF 0 <= idx /\ idx < len THEN idx
  ELSE IF idx >= len THEN 0
  ELSE idx

\* lines 315-321: index boundaries
NormalizeIndex(idx, len) ==
  IF 0 <= idx /\ idx < len THEN idx
  ELSE IF idx >= len THEN 0
  ELSE len - 1

\* lines 15-32: the quality catalog
QUALITY_PRESETS ==
  [k \in {"1080p", "720p", "480p", "360p"} |->
     CASE k = "1080p" -> [format     |-> "bestvideo[height<=1080]+bestaudio/best[height<=1080]",
                          resolution |-> "1920x1080", bitrate |-> "4000k"]
       [] k = "720p"  -> [format     |-> "bestvideo[height<=720]+bestaudio/best[height<=720]",
                          resolution |-> "1280x720", bitrate |-> "2500k"]
       [] k = "480p"  -> [format     |-> "bestvideo[height<=480]+bestaudio/best[height<=480]",
                          resolution |-> "854x480", bitrate |-> "1000k"]
       [] k = "360p"  -> [format     |-> "bestvideo[height<=360]+bestaudio/best[height<=360]",
                          resolution |-> "640x360", bitrate |-> "700k"]]

\* the quality_key arguments considered: the catalog's keys and two others
QualityArgs == DOMAIN QUALITY_PRESETS \cup {"9999p", ""}

\* mutant of Config: an unknown key falls back to the catalog's first entry
ConfigFallbackFirst(key) ==
  LET k == IF key \notin DOMAIN QUALITY_PRESETS THEN "1080p" ELSE key
  IN  [url        |-> "url",
       format     |-> QUALITY_PRESETS[k].format,
       resolution |-> QUALITY_PRESETS[k].resolution,
       bitrate    |-> QUALITY_PRESETS[k].bitrate]

\* lines 53-60: self.config for a quality_key argument
Config(key) ==
  LET k == IF key \notin DOMAIN QUALITY_PRESETS THEN "720p" ELSE key
  IN  [url        |-> "url",
       format     |-> QUALITY_PRESETS[k].format,
       resolution |-> QUALITY_PRESETS[k].resolution,
       bitrate    |-> QUALITY_PRESETS[k].bitrate]

\* line 82 has run in some thread
StopCalled == \E s \in Stoppers : spc[s] # "idle"

\* lines 112-119
GetStatus ==
  [status |-> IF stream_ready THEN "ready" ELSE "loading",
   video  |-> IF current_index >= 0 THEN current_index + 1 ELSE 0,
   total  |-> Len(playlist)]

\* ---------------------------------------------------------------- init
\* lines 39-77: the state __init__ leaves for a quality_key argument
Constructed(key) ==
  /\ ffmpeg_proc = 0
  /\ playlist = << >>
  /\ current_index = -1
  /\ command_queue = << >>
  /\ stop_event = FALSE
  /\ stream_ready = FALSE
  /\ pc = "loop"
  /\ command = "none"
  /\ leftBy = "none"
  /\ m3u8_ready = FALSE
  /\ ts_ready = FALSE
  /\ procs = << >>
  /\ files = NoFiles
  /\ spc = [s \in Stoppers |-> "idle"]
  /\ waitOn = [s \in Stoppers |-> 0]
  /\ nPut = 0
  /\ nApi = 0
  /\ cmd_data = NoCmd
  /\ lastGot = 0
  /\ gotAfterStop = 0
  /\ quality_key = key
  /\ config = Config(key)

\* line 39: quality_key has its default
Init == Constructed("720p")

\* any of the quality_key arguments
ConstructInit == \E key \in QualityArgs : Constructed(key)

\* ---------------------------------------------------------------- public API
\* next(), prev(), skip(n): lines 97-110
Enqueue ==
  /\ nApi < MaxCmds
  /\ \E c \in ApiCommands : command_queue' = Put(command_queue, c, nPut + 1)
  /\ nPut' = nPut + 1
  /\ nApi' = nApi + 1
  /\ UNCHANGED <<ffmpeg_proc, playlist, current_index, stop_event, stream_ready,
                 procs, files>>
  /\ UNCHANGED workerVars
  /\ UNCHANGED stopVars
  /\ UNCHANGED confVars

\* ---------------------------------------------------------------- worker
\* mutant of LoopCheck: `while True`, the stop flag is not looked at
LoopCheckIgnoringStop ==
  /\ pc = "loop"
  /\ pc' = "drain"
  /\ command' = "none"
  /\ UNCHANGED <<leftBy, ffmpeg_proc, playlist, current_index, command_queue, stop_event,
                 stream_ready, m3u8_ready, ts_ready, procs, files, nPut, nApi>>
  /\ UNCHANGED <<cmd_data, lastGot, gotAfterStop>>
  /\ UNCHANGED stopVars
  /\ UNCHANGED confVars

\* lines 273-274: loop condition, clear command
LoopCheck ==
  /\ pc = "loop"
  /\ IF stop_event
       THEN pc' = "exit" /\ UNCHANGED command
       ELSE pc' = "drain" /\ command' = "none"
  /\ UNCHANGED <<leftBy, ffmpeg_proc, playlist, current_index, command_queue, stop_event,
                 stream_ready, m3u8_ready, ts_ready, procs, files, nPut, nApi>>
  /\ UNCHANGED <<cmd_data, lastGot, gotAfterStop>>
  /\ UNCHANGED stopVars
  /\ UNCHANGED confVars

\* mutant of Dequeue: a LIFO queue, the newest entry is taken
DequeueNewest(q) == [item |-> q[Len(q)], rest |-> SubSeq(q, 1, Len(q) - 1)]

\* line 278: Queue.get() takes the oldest entry
Dequeue(q) == [item |-> Head(q), rest |-> Tail(q)]

\* lines 277-297: take at most one command
DrainCommand ==
  /\ pc = "drain"
  /\ IF command_queue = << >>
       THEN /\ pc' = "playlist"
            /\ UNCHANGED <<command_queue, cmd_data, lastGot, gotAfterStop, command,
                           current_index, leftBy>>
       ELSE LET d == Dequeue(command_queue) IN
            /\ command_queue' = d.rest
            /\ cmd_data' = d.item
            /\ lastGot' = d.item.ticket
            /\ gotAfterStop' = IF StopCalled /\ d.item.op # "stop"
                                 THEN gotAfterStop + 1
                                 ELSE gotAfterStop
            /\ IF d.item.op = "stop"
                 THEN /\ pc' = "finally"
                      /\ leftBy' = "stop_cmd"
                      /\ UNCHANGED <<command, current_index>>
                 ELSE /\ pc' = "playlist"
                      /\ command' = d.item.op
                      /\ current_index' = ApplyCommand(current_index, d.item)
                      /\ UNCHANGED leftBy
  /\ UNCHANGED <<ffmpeg_proc, playlist, stop_event, stream_ready, m3u8_ready,
                 ts_ready, procs, files, nPut, nApi>>
  /\ UNCHANGED stopVars
  /\ UNCHANGED confVars

\* lines 300-312: fetch the playlist when there is none.  The resolver returns
\* an empty list (also on its own errors, lines 153-155) or n >= 1 entries;
\* yt_dlp.YoutubeDL(...) at line 146 is outside the resolver's try and may raise.
EnsurePlaylist ==
  /\ pc = "playlist"
  /\ IF playlist # << >>
       THEN pc' = "normalize" /\ UNCHANGED <<playlist, current_index, leftBy>>
       ELSE \/ /\ current_index < MaxIndex
               /\ pc' = "finally"
               /\ leftBy' = "playlist_empty"
               /\ UNCHANGED <<playlist, current_index>>
            \/ /\ current_index < MaxIndex
               /\ pc' = "except"
               /\ UNCHANGED <<playlist, current_index, leftBy>>
            \/ \E n \in 1..MaxLen :
                 /\ playlist' = Videos(n)
                 /\ current_index' = IF current_index = -1 THEN 0 ELSE current_index
                 /\ pc' = "normalize"
                 /\ UNCHANGED leftBy
  /\ UNCHANGED <<ffmpeg_proc, command_queue, stop_event, stream_ready, command,
                 m3u8_ready, ts_ready, procs, files, nPut, nApi>>
  /\ UNCHANGED <<cmd_data, lastGot, gotAfterStop>>
  /\ UNCHANGED stopVars
  /\ UNCHANGED confVars

\* lines 315-321
Normalize ==
  /\ pc = "normalize"
  /\ current_index' = NormalizeIndex(current_index, Len(playlist))
  /\ pc' = "media"
  /\ UNCHANGED <<ffmpeg_proc, playlist, command_queue, stop_event, stream_ready,
                 command, leftBy, m3u8_ready, ts_ready, procs, files, nPut, nApi>>
  /\ UNCHANGED <<cmd_data, lastGot, gotAfterStop>>
  /\ UNCHANGED stopVars
  /\ UNCHANGED confVars

\* line 324: self.playlist[self.current_index], a Python list lookup
\* (negative indexes count from the end; anything else out of range raises)
PageUrlDefined(pl, idx) == -Len(pl) <= idx /\ idx < Len(pl)

\* lines 324-331: look the page URL up and resolve its media URLs.  The locator
\* returns both URLs, or (None, None) (lines 186-188); the YoutubeDL constructor
\* at line 166 is outside the locator's try and may raise.
ResolveMedia ==
  /\ pc = "media"
  /\ IF ~PageUrlDefined(playlist, current_index)
       THEN pc' = "except" /\ UNCHANGED <<command, leftBy>>
       ELSE \/ pc' = "clean" /\ UNCHANGED <<command, leftBy>>
            \/ /\ command' = "next"
               /\ leftBy' = "media_fail"
               /\ pc' = "finally"
            \/ pc' = "except" /\ UNCHANGED <<command, leftBy>>
  /\ UNCHANGED <<ffmpeg_proc, playlist, current_index, command_queue, stop_event,
                 stream_ready, m3u8_ready, ts_ready, procs, files, nPut, nApi>>
  /\ UNCHANGED <<cmd_data, lastGot, gotAfterStop>>
  /\ UNCHANGED stopVars
  /\ UNCHANGED confVars

\* mutant of CleanAndClear: line 334 missing, readiness is not cleared
CleanWithoutClear ==
  /\ pc = "clean"
  /\ files' = NoFiles
  /\ pc' = "launch"
  /\ UNCHANGED <<ffmpeg_proc, playlist, current_index, command_queue, stop_event,
                 stream_ready, command, leftBy, m3u8_ready, ts_ready, procs, nPut, nApi>>
  /\ UNCHANGED <<cmd_data, lastGot, gotAfterStop>>
  /\ UNCHANGED stopVars
  /\ UNCHANGED confVars

\* lines 333-334: _clean_hls_directory (lines 260-268), stream_ready.clear()
CleanAndClear ==
  /\ pc = "clean"
  /\ files' = NoFiles
  /\ stream_ready' = FALSE
  /\ pc' = "launch"
  /\ UNCHANGED <<ffmpeg_proc, playlist, current_index, command_queue, stop_event,
                 command, leftBy, m3u8_ready, ts_ready, procs, nPut, nApi>>
  /\ UNCHANGED <<cmd_data, lastGot, gotAfterStop>>
  /\ UNCHANGED stopVars
  /\ UNCHANGED confVars

\* lines 336-337: subprocess.Popen (line 224) starts a process, or raises
\* (no ffmpeg binary, no file descriptors) and leaves self.ffmpeg_proc alone
Launch ==
  /\ pc = "launch"
  /\ \/ /\ Len(procs) < MaxProcs
        /\ procs' = Append(procs, "running")
        /\ ffmpeg_proc' = Len(procs) + 1
        /\ m3u8_ready' = FALSE
        /\ ts_ready' = FALSE
        /\ pc' = "probe"
     \/ /\ pc' = "except"
        /\ UNCHANGED <<procs, ffmpeg_proc, m3u8_ready, ts_ready>>
  /\ UNCHANGED <<playlist, current_index, command_queue, stop_event, stream_ready,
                 command, leftBy, files, nPut, nApi>>
  /\ UNCHANGED <<cmd_data, lastGot, gotAfterStop>>
  /\ UNCHANGED stopVars
  /\ UNCHANGED confVars

\* lines 341-343: the startup probe failed
StartupFailed ==
  /\ procs' = IF ffmpeg_proc # 0 THEN Terminate(procs, ffmpeg_proc) ELSE procs
  /\ command' = "next"
  /\ leftBy' = "startup_fail"
  /\ pc' = "finally"

\* line 339 with _wait_for_stream (lines 226-258): one iteration of the probe loop
ProbeIteration ==
  /\ pc = "probe"
  /\ LET m == m3u8_ready \/ files.m3u8
         t == ts_ready \/ files.ts
     IN  IF m /\ t
           THEN /\ pc' = "set_ready"
                /\ m3u8_ready' = FALSE /\ ts_ready' = FALSE
                /\ UNCHANGED <<procs, command, leftBy>>
           ELSE IF ffmpeg_proc # 0 /\ ~Alive(ffmpeg_proc)
                  THEN /\ StartupFailed
                       /\ m3u8_ready' = FALSE /\ ts_ready' = FALSE
                  ELSE /\ pc' = "probe"
                       /\ m3u8_ready' = m /\ ts_ready' = t
                       /\ UNCHANGED <<procs, command, leftBy>>
  /\ UNCHANGED <<ffmpeg_proc, playlist, current_index, command_queue, stop_event,
                 stream_ready, files, nPut, nApi>>
  /\ UNCHANGED <<cmd_data, lastGot, gotAfterStop>>
  /\ UNCHANGED stopVars
  /\ UNCHANGED confVars

\* line 235 false, lines 255-258: the probe timed out
ProbeTimeout ==
  /\ pc = "probe"
  /\ StartupFailed
  /\ m3u8_ready' = FALSE /\ ts_ready' = FALSE
  /\ UNCHANGED <<ffmpeg_proc, playlist, current_index, command_queue, stop_event,
                 stream_ready, files, nPut, nApi>>
  /\ UNCHANGED <<cmd_data, lastGot, gotAfterStop>>
  /\ UNCHANGED stopVars
  /\ UNCHANGED confVars

\* lines 236, 240: os.path.getsize raises when the file is removed after
\* os.path.exists saw it
ProbeRaise ==
  /\ pc = "probe"
  /\ pc' = "except"
  /\ m3u8_ready' = FALSE /\ ts_ready' = FALSE
  /\ UNCHANGED <<ffmpeg_proc, playlist, current_index, command_queue, stop_event,
                 stream_ready, command, leftBy, procs, files, nPut, nApi>>
  /\ UNCHANGED <<cmd_data, lastGot, gotAfterStop>>
  /\ UNCHANGED stopVars
  /\ UNCHANGED confVars

\* line 345
SetReady ==
  /\ pc = "set_ready"
  /\ stream_ready' = TRUE
  /\ pc' = "monitor"
  /\ UNCHANGED <<ffmpeg_proc, playlist, current_index, command_queue, stop_event,
                 command, leftBy, m3u8_ready, ts_ready, procs, files, nPut, nApi>>
  /\ UNCHANGED <<cmd_data, lastGot, gotAfterStop>>
  /\ UNCHANGED stopVars
  /\ UNCHANGED confVars

\* lines 349-359: one iteration of the monitoring loop that leaves it
Monitor ==
  /\ pc = "monitor"
  /\ IF ~Alive(ffmpeg_proc)
       THEN leftBy' = "natural" /\ UNCHANGED procs
       ELSE IF stop_event
              THEN leftBy' = "stopped" /\ procs' = Terminate(procs, ffmpeg_proc)
              ELSE /\ command_queue # << >>
                   /\ leftBy' = "commanded"
                   /\ procs' = Terminate(procs, ffmpeg_proc)
  /\ pc' = "finally"
  /\ UNCHANGED <<ffmpeg_proc, playlist, current_index, command_queue, stop_event,
                 stream_ready, command, m3u8_ready, ts_ready, files, nPut, nApi>>
  /\ UNCHANGED <<cmd_data, lastGot, gotAfterStop>>
  /\ UNCHANGED stopVars
  /\ UNCHANGED confVars

\* mutant of Except: line 363 missing, the handler does not terminate
ExceptWithoutTerminate ==
  /\ pc = "except"
  /\ leftBy' = "exception"
  /\ pc' = "finally"
  /\ UNCHANGED <<ffmpeg_proc, playlist, current_index, command_queue, stop_event,
                 stream_ready, command, m3u8_ready, ts_ready, procs, files, nPut, nApi>>
  /\ UNCHANGED <<cmd_data, lastGot, gotAfterStop>>
  /\ UNCHANGED stopVars
  /\ UNCHANGED confVars

\* lines 361-364: the top-level handler
Except ==
  /\ pc = "except"
  /\ procs' = IF ffmpeg_proc # 0 THEN Terminate(procs, ffmpeg_proc) ELSE procs
  /\ leftBy' = "exception"
  /\ pc' = "finally"
  /\ UNCHANGED <<ffmpeg_proc, playlist, current_index, command_queue, stop_event,
                 stream_ready, command, m3u8_ready, ts_ready, files, nPut, nApi>>
  /\ UNCHANGED <<cmd_data, lastGot, gotAfterStop>>
  /\ UNCHANGED stopVars
  /\ UNCHANGED confVars

\* mutant of AdvanceDue: the queue is not looked at
AdvanceDueIgnoringQueue(cmd, queue, stop) == cmd = "none" /\ ~stop

\* line 371: the condition of the automatic advance
AdvanceDue(cmd, queue, stop) == cmd = "none" /\ queue = << >> /\ ~stop

\* mutant of AfterFinally: no top-level handler, an exception ends the loop
AfterFinallyUncaught(how) == IF how \in {"stop_cmd", "exception"} THEN "exit" ELSE "loop"

\* where the loop goes after the finally block: `break` (line 281) leaves it,
\* `continue`, a caught exception and the end of the body go to line 273
AfterFinally(how) == IF how = "stop_cmd" THEN "exit" ELSE "loop"

\* lines 366-381: drop the handle, advance when the cycle was not command-driven,
\* pause when no command waits.  The locals `command` and `cmd_data` are not
\* read again before they are assigned (lines 274, 278): the model forgets them.
Finally ==
  /\ pc = "finally"
  /\ ffmpeg_proc' = 0
  /\ current_index' = IF AdvanceDue(command, command_queue, stop_event)
                        THEN current_index + 1
                        ELSE current_index
  /\ pc' = AfterFinally(leftBy)
  /\ leftBy' = "none"
  /\ command' = "none"
  /\ cmd_data' = NoCmd
  /\ UNCHANGED <<playlist, command_queue, stop_event, stream_ready, m3u8_ready,
                 ts_ready, procs, files, nPut, nApi, lastGot, gotAfterStop>>
  /\ UNCHANGED stopVars
  /\ UNCHANGED confVars

\* line 383
WorkerExit ==
  /\ pc = "exit"
  /\ stream_ready' = TRUE
  /\ pc' = "done"
  /\ UNCHANGED <<ffmpeg_proc, playlist, current_index, command_queue, stop_event,
                 command, leftBy, m3u8_ready, ts_ready, procs, files, nPut, nApi>>
  /\ UNCHANGED <<cmd_data, lastGot, gotAfterStop>>
  /\ UNCHANGED stopVars
  /\ UNCHANGED confVars

\* lines 273-381: the steps of the loop
Cycle ==
  \/ LoopCheck \/ DrainCommand \/ EnsurePlaylist \/ Normalize \/ ResolveMedia
  \/ CleanAndClear \/ Launch \/ ProbeIteration \/ ProbeTimeout \/ ProbeRaise
  \/ SetReady \/ Monitor \/ Except \/ Finally

Worker == Cycle \/ WorkerExit

\* ---------------------------------------------------------------- ffmpeg
\* a process ends: on its own, or after SIGTERM
ProcExit(p) ==
  /\ Alive(p)
  /\ procs' = [procs EXCEPT ![p] = "exited"]
  /\ UNCHANGED <<ffmpeg_proc, playlist, current_index, command_queue, stop_event,
                 stream_ready, files, nPut, nApi>>
  /\ UNCHANGED workerVars
  /\ UNCHANGED stopVars
  /\ UNCHANGED confVars

\* a process that has not exited writes the manifest or the first chunk
\* (line 219-220: every process writes the same file names)
ProcWrite(p) ==
  /\ Alive(p)
  /\ \/ ~files.m3u8 /\ files' = [files EXCEPT !.m3u8 = TRUE]
     \/ ~files.ts /\ files' = [files EXCEPT !.ts = TRUE]
  /\ UNCHANGED <<ffmpeg_proc, playlist, current_index, command_queue, stop_event,
                 stream_ready, procs, nPut, nApi>>
  /\ UNCHANGED workerVars
  /\ UNCHANGED stopVars
  /\ UNCHANGED confVars

\* ---------------------------------------------------------------- stop()
\* mutant of StopSetEvent: line 82 missing, stop() only queues its entry
StopSetEventOmitted(s) ==
  /\ spc[s] = "idle"
  /\ spc' = [spc EXCEPT ![s] = "put"]
  /\ UNCHANGED <<ffmpeg_proc, playlist, current_index, command_queue, stop_event,
                 stream_ready, procs, files, waitOn, nPut, nApi>>
  /\ UNCHANGED workerVars
  /\ UNCHANGED confVars

\* line 82
StopSetEvent(s) ==
  /\ spc[s] = "idle"
  /\ stop_event' = TRUE
  /\ spc' = [spc EXCEPT ![s] = "put"]
  /\ UNCHANGED <<ffmpeg_proc, playlist, current_index, command_queue, stream_ready,
                 procs, files, waitOn, nPut, nApi>>
  /\ UNCHANGED workerVars
  /\ UNCHANGED confVars

\* line 85
StopPut(s) ==
  /\ spc[s] = "put"
  /\ command_queue' = Put(command_queue, StopCmd, nPut + 1)
  /\ nPut' = nPut + 1
  /\ spc' = [spc EXCEPT ![s] = "check"]
  /\ UNCHANGED <<ffmpeg_proc, playlist, current_index, stop_event, stream_ready,
                 procs, files, waitOn, nApi>>
  /\ UNCHANGED workerVars
  /\ UNCHANGED confVars

\* line 87
StopCheck(s) ==
  /\ spc[s] = "check"
  /\ spc' = [spc EXCEPT ![s] = IF ffmpeg_proc # 0 THEN "terminate" ELSE "join"]
  /\ UNCHANGED <<ffmpeg_proc, playlist, current_index, command_queue, stop_event,
                 stream_ready, procs, files, waitOn, nPut, nApi>>
  /\ UNCHANGED workerVars
  /\ UNCHANGED confVars

\* line 89: self.ffmpeg_proc is read again; None has no terminate()
StopTerminate(s) ==
  /\ spc[s] = "terminate"
  /\ IF ffmpeg_proc = 0
       THEN spc' = [spc EXCEPT ![s] = "fault"] /\ UNCHANGED procs
       ELSE /\ procs' = Terminate(procs, ffmpeg_proc)
            /\ spc' = [spc EXCEPT ![s] = "wait"]
  /\ UNCHANGED <<ffmpeg_proc, playlist, current_index, command_queue, stop_event,
                 stream_ready, files, waitOn, nPut, nApi>>
  /\ UNCHANGED workerVars
  /\ UNCHANGED confVars

\* line 90: self.ffmpeg_proc is read once more, then wait() blocks on that object
StopWait(s) ==
  /\ spc[s] = "wait"
  /\ IF ffmpeg_proc = 0
       THEN spc' = [spc EXCEPT ![s] = "fault"] /\ UNCHANGED waitOn
       ELSE /\ waitOn' = [waitOn EXCEPT ![s] = ffmpeg_proc]
            /\ spc' = [spc EXCEPT ![s] = "waiting"]
  /\ UNCHANGED <<ffmpeg_proc, playlist, current_index, command_queue, stop_event,
                 stream_ready, procs, files, nPut, nApi>>
  /\ UNCHANGED workerVars
  /\ UNCHANGED confVars

\* line 90: wait() returns once the process has exited
StopWaited(s) ==
  /\ spc[s] = "waiting"
  /\ ~Alive(waitOn[s])
  /\ waitOn' = [waitOn EXCEPT ![s] = 0]
  /\ spc' = [spc EXCEPT ![s] = "join"]
  /\ UNCHANGED <<ffmpeg_proc, playlist, current_index, command_queue, stop_event,
                 stream_ready, procs, files, nPut, nApi>>
  /\ UNCHANGED workerVars
  /\ UNCHANGED confVars

\* lines 92-93: join(timeout=5) returns when the worker is done or on timeout
StopJoin(s) ==
  /\ spc[s] = "join"
  /\ spc' = [spc EXCEPT ![s] = "returned"]
  /\ UNCHANGED <<ffmpeg_proc, playlist, current_index, command_queue, stop_event,
                 stream_ready, procs, files, waitOn, nPut, nApi>>
  /\ UNCHANGED workerVars
  /\ UNCHANGED confVars

Stop(s) ==
  \/ StopSetEvent(s) \/ StopPut(s) \/ StopCheck(s) \/ StopTerminate(s)
  \/ StopWait(s) \/ StopWaited(s) \/ StopJoin(s)

\* ---------------------------------------------------------------- specification
Next ==
  \/ Enqueue
  \/ Worker
  \/ \E p \in 1..Len(procs) : ProcExit(p) \/ ProcWrite(p)
  \/ \E s \in Stoppers : Stop(s)

Spec == Init /\ [][Next]_vars

\* the runs in which stop() is never called: the worker never leaves its loop
NextPlaying ==
  \/ Enqueue
  \/ Cycle
  \/ \E p \in 1..Len(procs) : ProcExit(p) \/ ProcWrite(p)

PlayingSpec == Init /\ [][NextPlaying]_vars

\* the manager constructed with any quality_key and left alone: no API call
NextUnattended ==
  \/ Cycle
  \/ \E p \in 1..Len(procs) : ProcExit(p) \/ ProcWrite(p)

ConstructSpec == ConstructInit /\ [][NextUnattended]_vars

\* the worker thread keeps running, a signalled process ends, a stop() call
\* that has started goes on
FairSpec ==
  /\ Spec
  /\ WF_vars(Worker)
  /\ \A p \in 1..MaxProcs : WF_vars(p <= Len(procs) /\ procs[p] = "terminating" /\ ProcExit(p))
  /\ \A s \in Stoppers : WF_vars(spc[s] # "idle" /\ Stop(s))

\* ---------------------------------------------------------------- properties
\* the worker's Finally step (the finally block runs and the loop goes on or ends)
FinallyStep == pc = "finally" /\ pc' # "finally"

\* the worker's DrainCommand step that takes an entry off the queue
DequeueStep == pc = "drain" /\ pc' # "drain" /\ command_queue # << >>

LiveProcs == {p \in 1..Len(procs) : Alive(p)}

\* C1: when the media locator fails for the video at the current index, no
\* process is launched for it, the loop goes on, and (no command waiting, no
\* stop requested) the index moves on by one, so that the next video attempted
\* is the one at index+1.
C1_MediaFailureSkipsToNext ==
  [][(FinallyStep /\ leftBy = "media_fail")
       => /\ ffmpeg_proc = 0
          /\ pc' = "loop"
          /\ (command_queue = << >> /\ ~stop_event
                => current_index' = current_index + 1)]_vars

\* C2: when a live process exits on its own and, at the finally block, the
\* queue is empty and no stop is pending, the index is advanced by exactly one,
\* whether or not the cycle began by applying a command.
C2_NaturalEndAdvances ==
  [][(FinallyStep /\ leftBy = "natural" /\ command_queue = << >> /\ ~stop_event)
       => current_index' = current_index + 1]_vars

\* C3: a command found waiting during Live monitoring makes the worker
\* terminate the process and leave the command queued; the finally block then
\* neither advances the index nor touches the queue; the head of the queue stays
\* the head until the worker's next dequeue, which applies exactly it.
C3_CommandDuringLive ==
  /\ [][(pc = "monitor" /\ pc' = "finally" /\ leftBy' = "commanded")
          => /\ command_queue # << >>
             /\ command_queue' = command_queue
             /\ procs'[ffmpeg_proc] # "running"
             /\ current_index' = current_index]_vars
  /\ [][(FinallyStep /\ leftBy = "commanded")
          => /\ command_queue # << >>
             /\ command_queue' = command_queue
             /\ current_index' = current_index
             /\ pc' = "loop"]_vars
  /\ [][(command_queue # << >> /\ ~DequeueStep)
          => /\ command_queue' # << >>
             /\ Head(command_queue') = Head(command_queue)]_vars
  /\ [][DequeueStep
          => /\ cmd_data' = Head(command_queue)
             /\ (Head(command_queue).op # "stop"
                   => /\ command' = Head(command_queue).op
                      /\ current_index' = ApplyCommand(current_index, Head(command_queue)))]_vars

\* first video live at index 0, one Next issued: the process was sent SIGTERM
\* and the next cycle has applied the Next, index 1
C3_Witness ==
  /\ pc = "playlist"
  /\ command = "next"
  /\ lastGot = 1
  /\ nPut = 1
  /\ current_index = 1
  /\ Len(procs) = 1 /\ procs[1] = "terminating"
  /\ stream_ready
  /\ ~stop_event

\* C4 as stated: where the worker selects the page URL in a cycle that applied
\* SkipTo(n), the index is (n-1) mod len(playlist).
C4_SkipIsModulo ==
  (pc = "media" /\ command = "skip")
    => current_index = (cmd_data.n - 1) % Len(playlist)

\* C4 amended: where the worker selects the page URL in a cycle that applied
\* SkipTo(n), the index is n-1 when n <= len(playlist) and 0 otherwise,
\* whatever the index was before: the same SkipTo(n) applied again gives the
\* same index.
C4_SkipClampsToStart ==
  (pc = "media" /\ command = "skip")
    => current_index = IF cmd_data.n <= Len(playlist) THEN cmd_data.n - 1 ELSE 0

\* a second command, SkipTo(n) with n-1 beyond the end, has been normalized
C4_Witness ==
  /\ pc = "media"
  /\ command = "skip"
  /\ lastGot = 2
  /\ cmd_data.n = Len(playlist) + 2
  /\ current_index = 0

\* C5: where the worker selects the page URL the playlist is non-empty and
\* 0 <= current_index < len(playlist); normalization maps an index >= len to 0,
\* an index < 0 to len-1 and leaves any other index alone.
C5_IndexInRange ==
  /\ [](pc = "media"
          => /\ playlist # << >>
             /\ 0 <= current_index /\ current_index < Len(playlist)
             /\ PageUrlDefined(playlist, current_index))
  /\ [][(pc = "normalize" /\ pc' = "media")
          => /\ (current_index >= Len(playlist) => current_index' = 0)
             /\ (current_index < 0 => current_index' = Len(playlist) - 1)
             /\ (0 <= current_index /\ current_index < Len(playlist)
                   => current_index' = current_index)]_vars

\* Prev applied before the first video: -2 has wrapped to the last index
C5_Witness ==
  /\ pc = "media"
  /\ command = "prev"
  /\ Len(playlist) = 2
  /\ current_index = 1

\* C6: at most one launched process has not yet exited.
C6_AtMostOneAlive == Cardinality(LiveProcs) <= 1

\* C7: while the worker has not exited, readiness is false from the moment the
\* worker leaves the monitoring of a process until the next startup probe has
\* succeeded.
C7_NotReadyBetweenVideos ==
  pc \in {"finally", "loop", "drain", "playlist", "normalize", "media", "clean",
          "launch", "probe", "except", "set_ready"}
    => ~stream_ready

\* the positions the worker goes through once it sees the stop flag in the
\* monitoring loop
StopPath == {"finally", "loop", "exit", "done"}

\* C8: with the stop flag set while the worker monitors a live process, the
\* worker's next step leaves the monitoring with the process signalled or
\* exited, the worker then only goes on to its exit and launches nothing, it
\* does reach its exit, and from then on the status is "ready".
C8_StopWhileLive ==
  /\ [][(stop_event /\ pc = "monitor" /\ pc' # "monitor")
          => /\ pc' = "finally"
             /\ procs'[ffmpeg_proc] # "running"]_vars
  /\ [][(stop_event /\ pc \in StopPath)
          => /\ pc' \in StopPath
             /\ Len(procs') = Len(procs)]_vars
  /\ (stop_event /\ pc = "monitor") ~> (pc = "done")
  /\ [](pc = "done" => GetStatus.status = "ready")
  /\ [][pc = "done" => pc' = "done"]_vars

\* the worker saw the stop flag while monitoring and signalled the process
C8_Witness ==
  /\ pc = "finally"
  /\ leftBy = "stopped"
  /\ procs[ffmpeg_proc] = "terminating"

\* C9: the queue holds, in order, exactly the entries put after the one the
\* worker dequeued last; a dequeue takes the oldest entry, one per cycle, and
\* applies it once; nothing else takes an entry or moves the index by a command.
C9_FifoOnePerCycle ==
  /\ [](\A i \in 1..Len(command_queue) :
          command_queue[i].ticket = lastGot + i)
  /\ [](lastGot + Len(command_queue) = nPut)
  /\ [][DequeueStep
          => /\ cmd_data' = Head(command_queue)
             /\ lastGot' = Head(command_queue).ticket
             /\ command_queue' = Tail(command_queue)
             /\ pc' \in {"playlist", "finally"}
             /\ (Head(command_queue).op # "stop"
                   => current_index' = ApplyCommand(current_index, Head(command_queue)))]_vars
  /\ [][~DequeueStep
          => /\ lastGot' = lastGot
             /\ Len(command_queue') >= Len(command_queue)]_vars

\* two commands were put with the worker busy; it has applied the second, a
\* different one, in its turn
C9_Witness ==
  /\ pc = "playlist"
  /\ lastGot = 2
  /\ cmd_data.op = "prev"
  /\ current_index = 0
  /\ Len(playlist) = 2
  /\ ~stop_event

\* C10: the worker is at or past its exit only with the stop flag set; a cycle
\* left by a failure or an exception is followed by the loop condition, and
\* with the flag clear by another cycle.
C10_OnlyStopEndsWorker ==
  /\ [](pc \in {"exit", "done"} => stop_event)
  /\ [][(FinallyStep /\ leftBy # "stop_cmd") => pc' = "loop"]_vars
  /\ [][(pc = "except" /\ pc' # "except") => pc' = "finally"]_vars
  /\ [][(pc = "loop" /\ pc' # "loop" /\ ~stop_event) => pc' = "drain"]_vars

\* an exception was caught with a process active and no stop requested
C10_Witness ==
  /\ pc = "finally"
  /\ leftBy = "exception"
  /\ ffmpeg_proc # 0
  /\ ~stop_event

\* C11: when the startup probe fails for the process launched in a cycle, the
\* worker has sent it SIGTERM (or it has exited), readiness was not set for it,
\* the loop goes on, and (no command waiting, no stop requested) the index moves
\* on by one, so that the next video attempted is the one at index+1.
C11_StartupFailureSkipsToNext ==
  [][(FinallyStep /\ leftBy = "startup_fail")
       => /\ ffmpeg_proc # 0
          /\ procs[ffmpeg_proc] # "running"
          /\ ~stream_ready
          /\ pc' = "loop"
          /\ (command_queue = << >> /\ ~stop_event
                => current_index' = current_index + 1)]_vars

\* C12: a cycle in which the playlist fetch fails or returns nothing leaves
\* current_index as it was.
C12_FailedFetchKeepsIndex ==
  [][(FinallyStep /\ leftBy = "playlist_empty")
       => current_index' = current_index]_vars

\* C13: construction with a quality_key that is not a key of the catalog gives
\* exactly the "720p" entry's format, resolution and bitrate in self.config;
\* a key of the catalog gives its own entry; the configuration never changes.
C13_QualityFallback ==
  /\ quality_key \notin {"1080p", "720p", "480p", "360p"}
       => /\ config.format = "bestvideo[height<=720]+bestaudio/best[height<=720]"
          /\ config.resolution = "1280x720"
          /\ config.bitrate = "2500k"
  /\ quality_key \in {"1080p", "720p", "480p", "360p"}
       => /\ config.format = QUALITY_PRESETS[quality_key].format
          /\ config.resolution = QUALITY_PRESETS[quality_key].resolution
          /\ config.bitrate = QUALITY_PRESETS[quality_key].bitrate
  /\ quality_key = "1080p" => config.resolution = "1920x1080"
  /\ quality_key = "480p" => config.resolution = "854x480"
  /\ quality_key = "360p" => config.resolution = "640x360"

\* a manager built with "9999p" has launched ffmpeg at 1280x720, 2500k
C13_Witness ==
  /\ quality_key = "9999p"
  /\ config.resolution = "1280x720"
  /\ config.bitrate = "2500k"
  /\ pc = "probe"
  /\ ffmpeg_proc = 1

\* C14: where the worker is about to launch a process, after the clean of the
\* same cycle, the directory holds no manifest and no chunk, and no process
\* launched earlier is still able to write one.
C14_CleanAtLaunch ==
  pc = "launch" => (files = NoFiles /\ LiveProcs = {})

\* C15: a process that has not exited and has not been sent SIGTERM is the one
\* self.ffmpeg_proc denotes: the handle is never cleared (and never replaced)
\* while its process is running unsignalled, whichever way the cycle is left.
C15_HandleHeldWhileRunning ==
  \A p \in 1..Len(procs) : procs[p] = "running" => ffmpeg_proc = p

\* an exception was caught during the startup of a process, stop() not called:
\* the handler has signalled the process and the handle is about to be cleared
C15_Witness ==
  /\ pc = "finally"
  /\ leftBy = "exception"
  /\ ffmpeg_proc = 1
  /\ procs[1] = "terminating"
  /\ ~StopCalled

\* C16: after stop() has been called the worker takes at most one entry that
\* is not the stop entry off the queue, and so applies at most one more command
\* to current_index, however many commands are queued ahead of the stop entry.
C16_AtMostOneAfterStop == gotAfterStop <= 1

\* two commands were queued ahead of the stop entry: the worker applied the
\* first after stop() was called and has exited with the second still queued
C16_Witness ==
  /\ pc = "done"
  /\ gotAfterStop = 1
  /\ Len(command_queue) = 2
  /\ command_queue[1].op # "stop"
  /\ command_queue[2].op = "stop"

\* C17: readiness is false where a process is about to be launched, during its
\* startup probe and until line 345; the probe is left for line 345 only once it
\* has seen a non-empty manifest and a non-empty first chunk; readiness turns
\* true only at line 345, reached from the probe, or at the worker's exit.
C17_ReadyOnlyAfterProbe ==
  /\ [](pc \in {"launch", "probe", "set_ready"} => ~stream_ready)
  /\ [][(pc = "probe" /\ pc' = "set_ready")
          => /\ m3u8_ready \/ files.m3u8
             /\ ts_ready \/ files.ts]_vars
  /\ [][(pc # "set_ready" /\ pc' = "set_ready") => pc = "probe"]_vars
  /\ [][(~stream_ready /\ stream_ready') => pc \in {"set_ready", "exit"}]_vars

\* the second process is in its startup probe, the manifest seen, the chunk not
C17_Witness ==
  /\ pc = "probe"
  /\ ffmpeg_proc = 2
  /\ m3u8_ready
  /\ ~ts_ready
  /\ ~stream_ready

\* C18: whenever the status is read, the video number v and the total t it
\* returns satisfy 0 <= v <= t, and v is 0 only before any process was launched.
C18_StatusInRange ==
  /\ 0 <= GetStatus.video
  /\ GetStatus.video <= GetStatus.total
  /\ GetStatus.video = 0 => procs = << >>

\* C19: with the stop flag set, no step launches a process.
C19_NoLaunchAfterStop ==
  [][stop_event => Len(procs') = Len(procs)]_vars

\* C20: no stop() call faults on an absent handle: each reaches the join.
C20_StopNeverFaults ==
  \A s \in Stoppers : spc[s] # "fault"

====
